---- MODULE Spec2Model ----
(***************************************************************************)
(* A model of navigation-router (src/index.js): a client-side router bound *)
(* to the browser's Navigation API.                                        *)
(*                                                                         *)
(* src/index.js holds two definitions of the class NavigationRouter        *)
(* (lines 5-169 and lines 202-344).  The variable `version` says which of  *)
(* the two is the one loaded; it is chosen in Init and never changes.      *)
(*                                                                         *)
(* Strings that the code inspects are modelled by their structure:         *)
(*   - a path ("/posts/42") or a route template ("/posts/:id") is the      *)
(*     sequence of its segments, a segment is the sequence of its tokens,  *)
(*     and ":" is a token of its own:                                      *)
(*        "/"            <<  <<>>  >>                                       *)
(*        "/posts/42"    <<  <<"posts">>, <<"42">>  >>                      *)
(*        "/posts/:id"   <<  <<"posts">>, <<":", "id">>  >>                 *)
(*   - a JavaScript value is a record tagged with its type.                *)
(*                                                                         *)
(* Every action leaves in `last` the call it models and in `out` the       *)
(* sequence of observable effects of that call, in the order the code      *)
(* produces them (calls of the inherited EventTarget methods, intercept,   *)
(* resolver and handler calls, results delivered to async-sequence         *)
(* consumers).  EventTarget itself (the listener lists) is the platform's. *)
(***************************************************************************)
EXTENDS Naturals, Sequences, FiniteSets, TLC

VARIABLES
    version,            \* 1: the class at lines 5-169, 2: the class at lines 202-344
    env,                \* which host facilities exist: [navigation, URLPattern]
    constructed,        \* TRUE iff the constructor returned (did not throw)
    subscribed,         \* TRUE iff the 'navigate' listener is registered
    staticRoutes,       \* #staticRoutes: Map path -> handler
    dynamicRoutes,      \* #dynamicRoutes: Array of {route, pattern, handler}
    resolveRouteChange, \* #resolveRouteChange: a resolver or null
    claimed,            \* deferred actions handed to event.intercept, not yet invoked
    gen,                \* per consumer: the state of its async generator
    registered,         \* history: per static path given to add, the handler of the
                        \* latest add and whether an add for the path has replaced
                        \* a different handler
    last,               \* the call made by the latest step (for add, with the
                        \* pattern array as it was before the call)
    out                 \* the observable effects of the latest step, in order

vars == <<version, env, constructed, subscribed, staticRoutes, dynamicRoutes,
          resolveRouteChange, claimed, gen, registered, last, out>>

---------------------------------------------------------------------------
(* Bounds of the model *)

\* longest #dynamicRoutes array explored
MaxDynamic == 2

---------------------------------------------------------------------------
(* Values *)

Null == [type |-> "null"]
Undefined == [type |-> "undefined"]
EmptyObject == [type |-> "object", props |-> <<>>]
Object(props) == [type |-> "object", props |-> props]
Function(name) == [type |-> "function", name |-> name]

\* the truth value JavaScript gives a value in a condition
Truthy(v) == v.type \notin {"undefined", "null"}

Handlers == {Function("h1"), Function("h2")}
Consumers == {"A", "B"}
EventNames == {"change", "404"}

\* location.host of the current document, and a foreign host
LocationHost == "site"
Hosts == {"site", "other"}

\* URL paths
PathPostsNew == << <<"posts">>, <<"new">> >>
PathPosts42 == << <<"posts">>, <<"42">> >>
PathMissing == << <<"missing">> >>
Pathnames == {PathPostsNew, PathPosts42, PathMissing}

\* route strings handed to add
RoutePostsId == << <<"posts">>, <<":", "id">> >>
RouteSectionId == << <<":", "section">>, <<":", "id">> >>
RouteIdId == << <<":", "id">>, <<":", "id">> >>
Routes == {PathPostsNew, RoutePostsId, RouteSectionId, RouteIdId}

URLs == [host : Hosts, pathname : Pathnames]

\* the fields of a NavigateEvent the listener reads
AllNavigateEvents ==
    [canIntercept : BOOLEAN, hashChange : BOOLEAN, downloadRequest : BOOLEAN,
     destination : URLs]

\* the filter conditions of the listener that event fails
Failing(event) ==
    {x \in {"canIntercept", "hashChange", "downloadRequest", "host"} :
        \/ x = "canIntercept" /\ ~event.canIntercept
        \/ x = "hashChange" /\ event.hashChange
        \/ x = "downloadRequest" /\ event.downloadRequest
        \/ x = "host" /\ event.destination.host # LocationHost}

\* the events explored: those failing no condition, to every path, and those
\* failing exactly one, to /posts/42
NavigateEvents ==
    {e \in AllNavigateEvents :
        \/ Failing(e) = {}
        \/ Cardinality(Failing(e)) = 1 /\ e.destination.pathname = PathPosts42}

---------------------------------------------------------------------------
(* Strings and the pattern-matching facility *)

\* route.includes(':')
IncludesColon(route) ==
    \E i \in DOMAIN route : \E j \in DOMAIN route[i] : route[i][j] = ":"

\* a segment of a template that is a named group, ":name"
IsGroup(seg) == Len(seg) > 0 /\ seg[1] = ":"

GroupName(seg) == seg[2]

GroupNames(route) == {GroupName(route[i]) : i \in {k \in DOMAIN route : IsGroup(route[k])}}

\* new URLPattern({ pathname: route }) throws on a template that names a group twice
CompileThrows(route) ==
    \E i, j \in DOMAIN route :
        i # j /\ IsGroup(route[i]) /\ IsGroup(route[j])
        /\ GroupName(route[i]) = GroupName(route[j])

\* new URLPattern({ pathname: route }): the compiled matcher, one part per segment.
\* Every other URL component is a wildcard.
URLPattern(route) ==
    [i \in DOMAIN route |->
        IF IsGroup(route[i])
        THEN [kind |-> "group", name |-> GroupName(route[i])]
        ELSE [kind |-> "fixed", text |-> route[i]]]

\* pattern.test(url): the pathname has as many segments as the template, a fixed
\* part equals its segment and a named group accepts any non-empty segment
PatternTest(pattern, url) ==
    /\ Len(pattern) = Len(url.pathname)
    /\ \A i \in DOMAIN pattern :
        IF pattern[i].kind = "group"
        THEN url.pathname[i] # <<>>
        ELSE pattern[i].text = url.pathname[i]

\* pattern.exec(url): the URLPatternResult; only pathname.groups is read
PatternExec(pattern, url) ==
    LET names == {pattern[i].name : i \in {k \in DOMAIN pattern : pattern[k].kind = "group"}}
    IN  [type |-> "object",
         pathname |->
            [groups |->
                [n \in names |->
                    url.pathname[CHOOSE i \in DOMAIN pattern :
                        pattern[i].kind = "group" /\ pattern[i].name = n]]]]

---------------------------------------------------------------------------
(* The route table *)

\* #staticRoutes.set(route, handler)
MapSet(map, key, value) ==
    [k \in DOMAIN map \cup {key} |-> IF k = key THEN value ELSE map[k]]

\* #staticRoutes.get(key)
MapGet(map, key) == IF key \in DOMAIN map THEN map[key] ELSE Undefined

EmptyMap == [k \in {} |-> Undefined]

\* the scan returning the last entry that accepts url instead of the first
ScanDynamicLast(routes, i, url) ==
    LET idx == {k \in i..Len(routes) : PatternTest(routes[k].pattern, url)}
    IN  IF idx = {}
        THEN Undefined
        ELSE LET k == CHOOSE m \in idx : \A n \in idx : n <= m
             IN  [type |-> "object",
                  match |-> PatternExec(routes[k].pattern, url),
                  handler |-> routes[k].handler]

\* the for-of loop of #getRoute over #dynamicRoutes, from index i on
RECURSIVE ScanDynamic(_, _, _)
ScanDynamic(routes, i, url) ==
    IF i > Len(routes)
    THEN Undefined
    ELSE IF PatternTest(routes[i].pattern, url)
         THEN [type |-> "object",
               match |-> PatternExec(routes[i].pattern, url),
               handler |-> routes[i].handler]
         ELSE ScanDynamic(routes, i + 1, url)

\* #getRoute(url)
getRoute(url) ==
    LET staticRoute == MapGet(staticRoutes, url.pathname)
    IN  IF Truthy(staticRoute)
        THEN [type |-> "object", match |-> Undefined, handler |-> staticRoute]
        ELSE ScanDynamic(dynamicRoutes, 1, url)

\* match?.pathname?.groups
Params(match) ==
    IF match = Undefined THEN Undefined ELSE Object(match.pathname.groups)

\* the route object built by match: { params, url }
Route(matchedRoute, url) == [params |-> Params(matchedRoute.match), url |-> url]

---------------------------------------------------------------------------
(* Events *)

\* RouterEvent.make(name, data[, options]): the second class definition adds
\* an options property, defaulting to {}
RouterEvent(name, data) ==
    [name |-> name, detail |-> data,
     options |-> IF version = 2 THEN EmptyObject ELSE Undefined]

\* emit(name, data): this.dispatchEvent(event)
Emit(name, data) == [kind |-> "emit", event |-> RouterEvent(name, data)]

\* the navigate listener's filter: TRUE iff the listener returns before match
Ignored1(event) ==
    \/ ~event.canIntercept \/ event.hashChange \/ event.downloadRequest
    \/ event.destination.host # LocationHost

\* the second definition reads event.downLoadRequest, a property no
\* NavigateEvent has: it is undefined, hence falsy
Ignored2(event) ==
    \/ ~event.canIntercept \/ event.hashChange \/ Truthy(Undefined)
    \/ event.destination.host # LocationHost

Ignored(event) == IF version = 1 THEN Ignored1(event) ELSE Ignored2(event)

---------------------------------------------------------------------------
(* The async generator behind [Symbol.asyncIterator]                       *)
(*                                                                         *)
(* gen[c] is the state of consumer c's generator object:                   *)
(*   "suspendedStart"  body not entered: the generator c would get from    *)
(*                     router[Symbol.asyncIterator](), whether c holds it  *)
(*                     already or, its earlier one completed, makes it     *)
(*                     with its next pull                                  *)
(*   "awaiting"        a next() is pending: the body runs the yield at     *)
(*                     line 65 and awaits the promise it made              *)
(*   "awaitingReturn"  as "awaiting", with a return() queued behind the    *)
(*                     pending next()                                      *)
(*   "suspendedYield"  a result was delivered; the consumer runs its loop  *)
(*                     body                                                *)

GenStates == {"suspendedStart", "awaiting", "awaitingReturn", "suspendedYield"}

\* the resolve function of the promise made at line 65 for consumer c's pull
Resolver(c) == [type |-> "function", name |-> "resolve", of |-> c]

\* the resolver handed the route itself, as in resolve(route)
ResolutionBare(route) == route

\* the value the deferred action hands the resolver (line 117)
Resolution(route) == [value |-> route, done |-> FALSE]

\* the iteration result a next() settles with when the body yields v
IterResult(v) == [value |-> v, done |-> FALSE]

\* what the generator of the resolved promise does once the promise at line 65
\* is resolved with v: the yield delivers v to the pending next(); a queued
\* return() then resumes the body with a return completion and runs finally
Resume(c, v) ==
    IF gen[c] = "awaiting"
    THEN <<[kind |-> "deliver", consumer |-> c, result |-> IterResult(v)]>>
    ELSE IF gen[c] = "awaitingReturn"
         THEN <<[kind |-> "deliver", consumer |-> c, result |-> IterResult(v)],
                [kind |-> "finally", consumer |-> c]>>
         ELSE <<>>

\* a generator body without the loop: it completes once its promise resolved
GenAfterResumeOnce(c) ==
    IF gen[c] \in {"awaiting", "awaitingReturn"} THEN "suspendedStart" ELSE gen[c]

\* the state of consumer c's generator after that: back in the loop body of the
\* consumer, or completed when a return() was queued
GenAfterResume(c) ==
    IF gen[c] = "awaiting" THEN "suspendedYield"
    ELSE IF gen[c] = "awaitingReturn" THEN "suspendedStart"
    ELSE gen[c]

---------------------------------------------------------------------------
(* Construction *)

\* the message of the error the constructor throws
ConstructorError ==
    IF ~env.navigation
    THEN (IF version = 1 THEN "Navigation API unavailable" ELSE "navigation api unavailable")
    ELSE (IF version = 1 THEN "URLPattern API unavailable" ELSE "URLPattern api unavailable")

\* a constructor that subscribes to the navigate event before it looks for
\* URLPattern
InitSubscribesFirst ==
    /\ version \in {1, 2}
    /\ env \in [navigation : BOOLEAN, URLPattern : BOOLEAN]
    /\ constructed = (env.navigation /\ env.URLPattern)
    /\ subscribed = env.navigation
    /\ staticRoutes = EmptyMap
    /\ dynamicRoutes = <<>>
    /\ resolveRouteChange = Null
    /\ claimed = <<>>
    /\ gen = [c \in Consumers |-> "suspendedStart"]
    /\ registered = EmptyMap
    /\ last = [op |-> "constructor"]
    /\ out = (IF env.navigation
              THEN <<[kind |-> "addEventListener", name |-> "navigate"]>>
              ELSE <<>>)
             \o (IF env.navigation /\ env.URLPattern
                 THEN <<>>
                 ELSE <<[kind |-> "throw", message |-> ConstructorError]>>)

\* the state after `new NavigationRouter()` returned or threw
Init ==
    /\ version \in {1, 2}
    /\ env \in [navigation : BOOLEAN, URLPattern : BOOLEAN]
    /\ constructed = (env.navigation /\ env.URLPattern)
    /\ subscribed = (env.navigation /\ env.URLPattern)
    /\ staticRoutes = EmptyMap
    /\ dynamicRoutes = <<>>
    /\ resolveRouteChange = Null
    /\ claimed = <<>>
    /\ gen = [c \in Consumers |-> "suspendedStart"]
    /\ registered = EmptyMap
    /\ last = [op |-> "constructor"]
    /\ out = IF env.navigation /\ env.URLPattern
             THEN <<[kind |-> "addEventListener", name |-> "navigate"]>>
             ELSE <<[kind |-> "throw", message |-> ConstructorError]>>

---------------------------------------------------------------------------
(* Operations *)

\* Array.prototype.unshift: the element is put in front
ArrayUnshift(array, element) == <<element>> \o array

\* Array.prototype.push: the element is put at the end
ArrayPush(array, element) == Append(array, element)

\* add that leaves a static path that is already registered with its handler
AddKeepFirst(route, handler) ==
    /\ constructed
    /\ last' = [op |-> "add", route |-> route, handler |-> handler,
                before |-> dynamicRoutes]
    /\ IF IncludesColon(route)
       THEN IF CompileThrows(route)
            THEN /\ out' = <<[kind |-> "throw", message |-> "TypeError"]>>
                 /\ UNCHANGED <<staticRoutes, dynamicRoutes>>
            ELSE /\ Len(dynamicRoutes) < MaxDynamic
                 /\ dynamicRoutes' =
                        ArrayPush(dynamicRoutes,
                                  [route |-> route, pattern |-> URLPattern(route),
                                   handler |-> handler])
                 /\ out' = <<>>
                 /\ UNCHANGED staticRoutes
       ELSE /\ staticRoutes' =
                    IF route \in DOMAIN staticRoutes
                    THEN staticRoutes
                    ELSE MapSet(staticRoutes, route, handler)
            /\ out' = <<>>
            /\ UNCHANGED dynamicRoutes
    /\ registered' =
        IF IncludesColon(route)
        THEN registered
        ELSE MapSet(registered, route,
                    [latest |-> handler,
                     replaced |-> /\ route \in DOMAIN registered
                                  /\ \/ registered[route].replaced
                                     \/ registered[route].latest # handler])
    /\ UNCHANGED <<version, env, constructed, subscribed, resolveRouteChange,
                   claimed, gen>>

\* add(route, handler)
Add(route, handler) ==
    /\ constructed
    /\ last' = [op |-> "add", route |-> route, handler |-> handler,
                before |-> dynamicRoutes]
    /\ IF IncludesColon(route)
       THEN IF CompileThrows(route)
            THEN /\ out' = <<[kind |-> "throw", message |-> "TypeError"]>>
                 /\ UNCHANGED <<staticRoutes, dynamicRoutes>>
            ELSE /\ Len(dynamicRoutes) < MaxDynamic
                 /\ dynamicRoutes' =
                        ArrayPush(dynamicRoutes,
                                  [route |-> route, pattern |-> URLPattern(route),
                                   handler |-> handler])
                 /\ out' = <<>>
                 /\ UNCHANGED staticRoutes
       ELSE /\ staticRoutes' = MapSet(staticRoutes, route, handler)
            /\ out' = <<>>
            /\ UNCHANGED dynamicRoutes
    /\ registered' =
        IF IncludesColon(route)
        THEN registered
        ELSE MapSet(registered, route,
                    [latest |-> handler,
                     replaced |-> /\ route \in DOMAIN registered
                                  /\ \/ registered[route].replaced
                                     \/ registered[route].latest # handler])
    /\ UNCHANGED <<version, env, constructed, subscribed, resolveRouteChange,
                   claimed, gen>>

\* on(name, handler): this.addEventListener(name, handler)
On(name) ==
    /\ constructed
    /\ last' = [op |-> "on", name |-> name]
    /\ out' = <<[kind |-> "addEventListener", name |-> name]>>
    /\ UNCHANGED <<version, env, constructed, subscribed, staticRoutes,
                   dynamicRoutes, resolveRouteChange, claimed, gen, registered>>

\* match with the '404' event carrying url.pathname instead of the URL
MatchEffectsPathDetail(url) ==
    LET matchedRoute == getRoute(url)
    IN  IF ~Truthy(matchedRoute)
        THEN <<[kind |-> "call", name |-> "match", url |-> url],
               Emit("404", url.pathname)>>
        ELSE <<[kind |-> "call", name |-> "match", url |-> url],
               [kind |-> "intercept", route |-> Route(matchedRoute, url),
                handler |-> matchedRoute.handler]>>

\* what match(url, event) does, in order
MatchEffects(url) ==
    LET matchedRoute == getRoute(url)
    IN  IF ~Truthy(matchedRoute)
        THEN <<[kind |-> "call", name |-> "match", url |-> url], Emit("404", url)>>
        ELSE <<[kind |-> "call", name |-> "match", url |-> url],
               [kind |-> "intercept", route |-> Route(matchedRoute, url),
                handler |-> matchedRoute.handler]>>

\* the deferred actions match(url, event) hands to event.intercept
MatchClaims(url) ==
    LET matchedRoute == getRoute(url)
    IN  IF ~Truthy(matchedRoute)
        THEN <<>>
        ELSE <<[route |-> Route(matchedRoute, url), handler |-> matchedRoute.handler]>>

\* a listener whose match drops the stored resolver when it finds no route
NavigateClearsOnNotFound(event) ==
    /\ claimed = <<>>
    /\ last' = [op |-> "navigate", event |-> event]
    /\ IF ~subscribed \/ Ignored(event)
       THEN /\ out' = <<>>
            /\ UNCHANGED <<claimed, resolveRouteChange>>
       ELSE /\ out' = MatchEffects(event.destination)
            /\ claimed' = claimed \o MatchClaims(event.destination)
            /\ resolveRouteChange' = IF MatchClaims(event.destination) = <<>>
                                     THEN Null
                                     ELSE resolveRouteChange
    /\ UNCHANGED <<version, env, constructed, subscribed, staticRoutes,
                   dynamicRoutes, gen, registered>>

\* the host delivers a navigate event: the listener registered by the constructor.
\* The host handles one navigation at a time: it invokes the deferred action of a
\* claimed navigation before it delivers the next navigate event.
Navigate(event) ==
    /\ claimed = <<>>
    /\ last' = [op |-> "navigate", event |-> event]
    /\ IF ~subscribed \/ Ignored(event)
       THEN /\ out' = <<>>
            /\ UNCHANGED claimed
       ELSE /\ out' = MatchEffects(event.destination)
            /\ claimed' = claimed \o MatchClaims(event.destination)
    /\ UNCHANGED <<version, env, constructed, subscribed, staticRoutes,
                   dynamicRoutes, resolveRouteChange, gen, registered>>

\* the deferred action with `await handler(route)` placed first (the line left
\* commented out at line 293)
DeferredEffectsHandlerFirst(d, r, outcome) ==
    <<[kind |-> "handler", handler |-> d.handler, arg |-> d.route],
      Emit("change", d.route)>>
    \o (IF Truthy(r)
        THEN <<[kind |-> "resolve", resolver |-> r, arg |-> Resolution(d.route)]>>
        ELSE <<>>)
    \o <<[kind |-> "return", result |-> outcome]>>
    \o (IF Truthy(r) THEN Resume(r.of, Resolution(d.route)) ELSE <<>>)

\* the deferred action calling the handler a second time when it failed
DeferredEffectsRetry(d, r, outcome) ==
    <<Emit("change", d.route)>>
    \o (IF Truthy(r)
        THEN <<[kind |-> "resolve", resolver |-> r, arg |-> Resolution(d.route)]>>
        ELSE <<>>)
    \o <<[kind |-> "handler", handler |-> d.handler, arg |-> d.route]>>
    \o (IF outcome = "rejected"
        THEN <<[kind |-> "handler", handler |-> d.handler, arg |-> d.route]>>
        ELSE <<>>)
    \o <<[kind |-> "return", result |-> outcome]>>
    \o (IF Truthy(r) THEN Resume(r.of, Resolution(d.route)) ELSE <<>>)

\* the deferred action looking the route up again when the host invokes it
DeferredEffectsLateBinding(d, r, outcome) ==
    LET route == Route(getRoute(d.route.url), d.route.url)
        handler == getRoute(d.route.url).handler
    IN  <<Emit("change", route)>>
        \o (IF Truthy(r)
            THEN <<[kind |-> "resolve", resolver |-> r, arg |-> Resolution(route)]>>
            ELSE <<>>)
        \o <<[kind |-> "handler", handler |-> handler, arg |-> route],
             [kind |-> "return", result |-> outcome]>>
        \o (IF Truthy(r) THEN Resume(r.of, Resolution(route)) ELSE <<>>)

\* the deferred action catching the failure of the handler: it ends fulfilled
DeferredEffectsSwallow(d, r, outcome) ==
    <<Emit("change", d.route)>>
    \o (IF Truthy(r)
        THEN <<[kind |-> "resolve", resolver |-> r, arg |-> Resolution(d.route)]>>
        ELSE <<>>)
    \o <<[kind |-> "handler", handler |-> d.handler, arg |-> d.route],
         [kind |-> "return", result |-> "fulfilled"]>>
    \o (IF Truthy(r) THEN Resume(r.of, Resolution(d.route)) ELSE <<>>)

\* the deferred action clearing the slot without invoking the stored resolver
DeferredEffectsNoResolve(d, r, outcome) ==
    <<Emit("change", d.route),
      [kind |-> "handler", handler |-> d.handler, arg |-> d.route],
      [kind |-> "return", result |-> outcome]>>

\* the body of the handler given to event.intercept, for the claim d, with r the
\* content of #resolveRouteChange when it starts and outcome the way handler(route)
\* ends; the generator awaiting the resolved promise resumes once the body returned
DeferredEffects(d, r, outcome) ==
    <<Emit("change", d.route)>>
    \o (IF Truthy(r)
        THEN <<[kind |-> "resolve", resolver |-> r, arg |-> Resolution(d.route)]>>
        ELSE <<>>)
    \o <<[kind |-> "handler", handler |-> d.handler, arg |-> d.route],
         [kind |-> "return", result |-> outcome]>>
    \o (IF Truthy(r) THEN Resume(r.of, Resolution(d.route)) ELSE <<>>)

\* the host invokes the deferred action of the oldest claimed navigation
InvokeDeferred(outcome) ==
    /\ claimed # <<>>
    /\ last' = [op |-> "deferred", claim |-> Head(claimed), outcome |-> outcome]
    /\ out' = DeferredEffects(Head(claimed), resolveRouteChange, outcome)
    /\ resolveRouteChange' = Null
    /\ gen' = IF Truthy(resolveRouteChange)
              THEN [gen EXCEPT ![resolveRouteChange.of] = GenAfterResume(resolveRouteChange.of)]
              ELSE gen
    /\ claimed' = Tail(claimed)
    /\ UNCHANGED <<version, env, constructed, subscribed, staticRoutes,
                   dynamicRoutes, registered>>

\* a pull served at once from the latest match when that match found no
\* resolver to invoke (matches kept for the next pull)
PullBuffered(c) ==
    /\ constructed
    /\ gen[c] \in {"suspendedStart", "suspendedYield"}
    /\ last' = [op |-> "next", consumer |-> c]
    /\ IF last.op = "deferred" /\ \A i \in DOMAIN out : out[i].kind # "resolve"
       THEN /\ UNCHANGED resolveRouteChange
            /\ gen' = [gen EXCEPT ![c] = "suspendedYield"]
            /\ out' = <<[kind |-> "deliver", consumer |-> c,
                         result |-> IterResult(Resolution(last.claim.route))]>>
       ELSE /\ resolveRouteChange' = Resolver(c)
            /\ gen' = [gen EXCEPT ![c] = "awaiting"]
            /\ out' = <<>>
    /\ UNCHANGED <<version, env, constructed, subscribed, staticRoutes,
                   dynamicRoutes, claimed, registered>>

\* a pull that stores its resolver only when the slot is empty
PullKeepFirst(c) ==
    /\ constructed
    /\ gen[c] \in {"suspendedStart", "suspendedYield"}
    /\ last' = [op |-> "next", consumer |-> c]
    /\ resolveRouteChange' = IF Truthy(resolveRouteChange)
                             THEN resolveRouteChange
                             ELSE Resolver(c)
    /\ gen' = [gen EXCEPT ![c] = "awaiting"]
    /\ out' = <<>>
    /\ UNCHANGED <<version, env, constructed, subscribed, staticRoutes,
                   dynamicRoutes, claimed, registered>>

\* router[Symbol.asyncIterator]() when the consumer has no generator yet, then
\* next(): the body runs to the yield at line 65, whose promise executor stores
\* the resolver, and awaits that promise
Pull(c) ==
    /\ constructed
    /\ gen[c] \in {"suspendedStart", "suspendedYield"}
    /\ last' = [op |-> "next", consumer |-> c]
    /\ resolveRouteChange' = Resolver(c)
    /\ gen' = [gen EXCEPT ![c] = "awaiting"]
    /\ out' = <<>>
    /\ UNCHANGED <<version, env, constructed, subscribed, staticRoutes,
                   dynamicRoutes, claimed, registered>>

\* the content of #resolveRouteChange after consumer c's generator got return():
\* a generator suspended at the yield runs finally; one that never started
\* completes without entering the body; one that awaits its promise queues the
\* request behind the pending next()
SlotAfterReturn(c) ==
    IF gen[c] = "suspendedYield" THEN Null ELSE resolveRouteChange

\* the consumer abandons the iteration: a break or a throw in the loop body of
\* for await (both call return()), or an explicit return() on the generator
Return(c, how) ==
    /\ constructed
    /\ gen[c] \in {"suspendedStart", "awaiting", "suspendedYield"}
    /\ how \in {"break", "throw"} => gen[c] = "suspendedYield"
    /\ last' = [op |-> "return", consumer |-> c, how |-> how, from |-> gen[c]]
    /\ resolveRouteChange' = SlotAfterReturn(c)
    /\ gen' = [gen EXCEPT ![c] = IF gen[c] = "awaiting" THEN "awaitingReturn" ELSE "suspendedStart"]
    /\ out' = IF gen[c] = "suspendedYield"
              THEN <<[kind |-> "finally", consumer |-> c]>>
              ELSE <<>>
    /\ UNCHANGED <<version, env, constructed, subscribed, staticRoutes,
                   dynamicRoutes, claimed, registered>>

Next ==
    \/ \E route \in Routes, handler \in Handlers : Add(route, handler)
    \/ \E name \in EventNames : On(name)
    \/ \E event \in NavigateEvents : Navigate(event)
    \/ \E outcome \in {"fulfilled", "rejected"} : InvokeDeferred(outcome)
    \/ \E c \in Consumers : Pull(c)
    \/ \E c \in Consumers, how \in {"break", "throw", "return"} : Return(c, how)

Spec == Init /\ [][Next]_vars

\* the program with one consumer of the async sequence: a single
\* `for await (const route of router)` loop
SingleConsumer == "A"

NextSingle ==
    \/ \E route \in Routes, handler \in Handlers : Add(route, handler)
    \/ \E name \in EventNames : On(name)
    \/ \E event \in NavigateEvents : Navigate(event)
    \/ \E outcome \in {"fulfilled", "rejected"} : InvokeDeferred(outcome)
    \/ Pull(SingleConsumer)
    \/ \E how \in {"break", "throw", "return"} : Return(SingleConsumer, how)

SpecSingle == Init /\ [][NextSingle]_vars

---------------------------------------------------------------------------
(* Vocabulary of the properties *)

\* a navigation the router is to consider: it passes the four filters
Eligible(event) ==
    /\ event.canIntercept
    /\ ~event.hashChange
    /\ ~event.downloadRequest
    /\ event.destination.host = LocationHost

\* the latest step was the delivery of a navigate event to a subscribed router
Navigated == last.op = "navigate" /\ subscribed

\* the latest step was the host invoking a deferred action
Deferred == last.op = "deferred"

\* the effects of the latest step that are of the given kind
OutOfKind(kind) == SelectSeq(out, LAMBDA e : e.kind = kind)

\* the entries of #dynamicRoutes whose matcher accepts url
Accepting(url) ==
    {i \in DOMAIN dynamicRoutes : PatternTest(URLPattern(dynamicRoutes[i].route), url)}

\* url matches neither a static nor a pattern entry
NoEntry(url) == url.pathname \notin DOMAIN staticRoutes /\ Accepting(url) = {}

---------------------------------------------------------------------------
(* C1 *)

\* C1: a navigate event with canIntercept false, or hashChange true, or
\* downloadRequest true, or a destination host other than the document's, makes
\* the router do nothing: no call of match, no event emitted, no intercept, no
\* handler call (the step has no effect at all), and the pending-resolver slot and
\* the claimed navigations stay as they were.
C1_IneligibleNavigationIgnored ==
    [][(last'.op = "navigate" /\ ~Eligible(last'.event))
        => (out' = <<>> /\ resolveRouteChange' = resolveRouteChange
            /\ claimed' = claimed)]_vars

---------------------------------------------------------------------------
(* C2 *)

IsCore(e) == e.kind \in {"emit", "resolve", "handler"}

\* C2: a matched navigation is claimed (intercept) and nothing is emitted by that
\* step; when the host invokes the deferred action, the step emits 'change' with
\* the matched-route record, then, iff a resolver was stored, invokes it with
\* {value: matchedRoute, done: false}, then invokes the registered handler with
\* the record, in this order, and it leaves the slot empty.
C2_ClaimThenEmitNotifyHandle ==
    [][/\ (last'.op = "navigate" /\ claimed' # claimed)
            => (OutOfKind("intercept")' # <<>> /\ OutOfKind("emit")' = <<>>)
       /\ last'.op = "deferred"
            => /\ claimed # <<>>
               /\ SelectSeq(out', IsCore) =
                    <<[kind |-> "emit",
                       event |-> RouterEvent("change", Head(claimed).route)]>>
                    \o (IF resolveRouteChange # Null
                        THEN <<[kind |-> "resolve", resolver |-> resolveRouteChange,
                                arg |-> [value |-> Head(claimed).route,
                                         done |-> FALSE]]>>
                        ELSE <<>>)
                    \o <<[kind |-> "handler", handler |-> Head(claimed).handler,
                          arg |-> Head(claimed).route]>>
               /\ resolveRouteChange' = Null]_vars

\* a deferred action ran while a resolver was stored
C2_Witness == Deferred /\ OutOfKind("resolve") # <<>> /\ OutOfKind("handler") # <<>>

---------------------------------------------------------------------------
(* C3 *)

\* C3: an eligible navigation whose URL matches no static and no pattern entry
\* makes match emit exactly one '404' event whose detail is the URL and nothing
\* else: no 'change', no intercept (no navigation is claimed), no handler call.
C3_NotFoundEmits404Only ==
    (Navigated /\ Eligible(last.event) /\ NoEntry(last.event.destination))
        => /\ out = <<[kind |-> "call", name |-> "match",
                       url |-> last.event.destination],
                      [kind |-> "emit",
                       event |-> RouterEvent("404", last.event.destination)]>>
           /\ claimed = <<>>

\* a not-found navigation while pattern and static entries exist
C3_Witness ==
    /\ Navigated /\ Eligible(last.event) /\ NoEntry(last.event.destination)
    /\ dynamicRoutes # <<>> /\ DOMAIN staticRoutes # {}
    /\ OutOfKind("emit") # <<>>

---------------------------------------------------------------------------
(* C4 *)

\* C4: for an eligible navigation whose URL path is a registered static path, the
\* matched-route record match builds (the one the deferred action passes to
\* 'change' and to the handler) has params equal to the empty mapping {}, and the
\* handler claimed with it is the one registered for the path.
C4_StaticRouteEmptyParams ==
    (Navigated /\ Eligible(last.event)
        /\ last.event.destination.pathname \in DOMAIN staticRoutes)
        => claimed =
            <<[route |-> [params |-> EmptyObject, url |-> last.event.destination],
               handler |-> staticRoutes[last.event.destination.pathname]]>>

---------------------------------------------------------------------------
(* C5 *)

\* the named groups the template route extracts from url
GroupsOf(route, url) ==
    [n \in GroupNames(route) |->
        url.pathname[CHOOSE i \in DOMAIN route :
                        IsGroup(route[i]) /\ GroupName(route[i]) = n]]

\* the lowest registration index among the pattern entries accepting url
FirstAccepting(url) == CHOOSE i \in Accepting(url) : \A j \in Accepting(url) : i <= j

\* C5: add appends every template that compiles at the end of the pattern
\* sequence (a template registered twice gives two entries); and for an eligible
\* navigation whose path is no static key and that some pattern entry accepts,
\* the route resolved is the accepting entry registered first: the navigation is
\* claimed with that entry's handler and with params the named groups that
\* entry's template extracts from the URL.
C5_FirstRegisteredPatternWins ==
    /\ (last.op = "add" /\ IncludesColon(last.route) /\ out = <<>>)
        => /\ Len(dynamicRoutes) = Len(last.before) + 1
           /\ SubSeq(dynamicRoutes, 1, Len(last.before)) = last.before
           /\ dynamicRoutes[Len(dynamicRoutes)].route = last.route
           /\ dynamicRoutes[Len(dynamicRoutes)].handler = last.handler
    /\ (Navigated /\ Eligible(last.event)
        /\ last.event.destination.pathname \notin DOMAIN staticRoutes
        /\ Accepting(last.event.destination) # {})
        => claimed =
            <<[route |->
                [params |->
                    Object(GroupsOf(
                        dynamicRoutes[FirstAccepting(last.event.destination)].route,
                        last.event.destination)),
                 url |-> last.event.destination],
               handler |->
                dynamicRoutes[FirstAccepting(last.event.destination)].handler]>>

\* /posts/:id registered twice with different handlers, then a navigation to
\* /posts/42 claimed with the first handler and params {id: '42'}
C5_Witness ==
    /\ Navigated /\ Eligible(last.event)
    /\ last.event.destination.pathname = PathPosts42
    /\ Len(dynamicRoutes) = 2
    /\ dynamicRoutes[1].route = RoutePostsId
    /\ dynamicRoutes[2].route = RoutePostsId
    /\ dynamicRoutes[1].handler # dynamicRoutes[2].handler
    /\ Len(claimed) = 1
    /\ claimed[1].handler = dynamicRoutes[1].handler
    /\ claimed[1].route.params = Object([id |-> <<"42">>])

---------------------------------------------------------------------------
(* C6 *)

\* C6: for an eligible navigation whose URL path is a static key while one or
\* more pattern entries accept the URL too, the static handler is the one
\* resolved, with empty params {}.
C6_StaticBeforePatterns ==
    (Navigated /\ Eligible(last.event)
        /\ last.event.destination.pathname \in DOMAIN staticRoutes
        /\ Accepting(last.event.destination) # {})
        => /\ OutOfKind("intercept") =
                <<[kind |-> "intercept",
                   route |-> [params |-> EmptyObject, url |-> last.event.destination],
                   handler |-> staticRoutes[last.event.destination.pathname]]>>
           /\ Len(claimed) = 1
           /\ claimed[1].handler = staticRoutes[last.event.destination.pathname]

---------------------------------------------------------------------------
(* C7 *)

\* C7: a static path holds the handler of the latest add for it (a later add
\* replaces the handler, the path keeps one entry), and an eligible navigation to
\* a registered static path is claimed once, with the handler of the latest add
\* for that path.
C7_LatestStaticHandlerWins ==
    /\ DOMAIN staticRoutes = DOMAIN registered
    /\ \A p \in DOMAIN registered : staticRoutes[p] = registered[p].latest
    /\ (Navigated /\ Eligible(last.event)
        /\ last.event.destination.pathname \in DOMAIN registered)
        => /\ Len(OutOfKind("intercept")) = 1
           /\ OutOfKind("intercept")[1].handler =
                registered[last.event.destination.pathname].latest
           /\ Len(claimed) = 1
           /\ claimed[1].handler = registered[last.event.destination.pathname].latest

\* a navigation to /posts/new after a second add replaced its handler
C7_Witness ==
    /\ Navigated /\ Eligible(last.event)
    /\ last.event.destination.pathname = PathPostsNew
    /\ PathPostsNew \in DOMAIN registered
    /\ registered[PathPostsNew].replaced
    /\ Len(claimed) = 1
    /\ claimed[1].handler = registered[PathPostsNew].latest

---------------------------------------------------------------------------
(* C8 *)

\* C8: when a consumer that has pulled abandons the iteration (break, throw or
\* return(), a pull pending or not), the slot is empty right after, and no later
\* deferred action resolves a pull of a generator that was told to return.
C8_AbandonClearsSlot ==
    /\ (last.op = "return" /\ last.from # "suspendedStart")
        => resolveRouteChange = Null
    /\ \A c \in Consumers : gen[c] = "awaitingReturn" => resolveRouteChange # Resolver(c)
    /\ Deferred => OutOfKind("finally") = <<>>

---------------------------------------------------------------------------
(* C9 *)

---------------------------------------------------------------------------
(* C10 *)

\* C10: an eligible navigation makes match either emit '404' once and claim
\* nothing, or call intercept once and emit nothing, and that step calls no
\* handler; the deferred action of a claimed navigation, once invoked, emits
\* 'change' once, calls the handler resolved for that navigation once and no other
\* handler, and the claim is consumed (nothing is left to run again).
C10_DispatchedExactlyOnce ==
    /\ (Navigated /\ Eligible(last.event))
        => /\ OutOfKind("handler") = <<>>
           /\ \/ /\ Len(OutOfKind("emit")) = 1
                 /\ OutOfKind("emit")[1].event.name = "404"
                 /\ OutOfKind("intercept") = <<>>
                 /\ claimed = <<>>
              \/ /\ Len(OutOfKind("intercept")) = 1
                 /\ OutOfKind("emit") = <<>>
                 /\ Len(claimed) = 1
    /\ Deferred
        => /\ Len(OutOfKind("emit")) = 1
           /\ OutOfKind("emit")[1].event.name = "change"
           /\ OutOfKind("emit")[1].event.detail = last.claim.route
           /\ OutOfKind("handler") =
                <<[kind |-> "handler", handler |-> last.claim.handler,
                   arg |-> last.claim.route]>>
           /\ OutOfKind("intercept") = <<>>
           /\ claimed = <<>>

\* h1 on a static path, h2 on /posts/:id, navigation to /posts/42: h2 is called
\* once with params {id: '42'}, h1 is not called, 'change' is emitted once
C10_Witness ==
    /\ Deferred
    /\ DOMAIN staticRoutes = {PathPostsNew}
    /\ staticRoutes[PathPostsNew] = Function("h1")
    /\ Len(dynamicRoutes) = 1
    /\ dynamicRoutes[1].route = RoutePostsId
    /\ dynamicRoutes[1].handler = Function("h2")
    /\ last.claim.route =
        [params |-> Object([id |-> <<"42">>]),
         url |-> [host |-> LocationHost, pathname |-> PathPosts42]]
    /\ OutOfKind("handler") =
        <<[kind |-> "handler", handler |-> Function("h2"), arg |-> last.claim.route]>>
    /\ Len(OutOfKind("emit")) = 1

---------------------------------------------------------------------------
(* C11 *)

\* in the generator states g, consumer c has a pull (next) that is not settled
PendingIn(g, c) == g[c] \in {"awaiting", "awaitingReturn"}

Pending(c) == PendingIn(gen, c)

\* the effects o deliver to consumer c an iteration result carrying route
DeliveredIn(o, c, route) ==
    \E i \in DOMAIN o :
        /\ o[i].kind = "deliver"
        /\ o[i].consumer = c
        /\ o[i].result.value = Resolution(route)

DeliveredTo(c, route) == DeliveredIn(out, c, route)

---------------------------------------------------------------------------
(* C12 *)

\* C12: when window.navigation or URLPattern is unavailable, construction fails:
\* the constructor throws and calls no addEventListener, no router exists (no
\* operation of it ever runs), and no navigate event delivered by the host
\* afterwards has any effect: nothing is matched, emitted or claimed.
C12_UnavailableFacilityFailsConstruction ==
    (~env.navigation \/ ~env.URLPattern)
        => /\ ~constructed
           /\ ~subscribed
           /\ last.op \in {"constructor", "navigate"}
           /\ last.op = "constructor"
                => (Len(out) = 1 /\ out[1].kind = "throw")
           /\ last.op = "navigate" => out = <<>>
           /\ claimed = <<>>
           /\ staticRoutes = EmptyMap
           /\ dynamicRoutes = <<>>
           /\ resolveRouteChange = Null

\* URLPattern is unavailable, construction failed, and the host delivered an
\* eligible navigate event: nothing happened
C12_Witness ==
    /\ env.navigation
    /\ ~env.URLPattern
    /\ last.op = "navigate"
    /\ Eligible(last.event)
    /\ out = <<>>
    /\ ~subscribed

---------------------------------------------------------------------------
(* C13 *)

\* C13: the slot holds at most one resolver, shared by all consumers. A pull
\* stores its own resolver whatever the slot held, so of two consumers that
\* both pulled before the next match only the later one's resolver is stored;
\* the deferred action of the next match invokes that one resolver and delivers
\* to that consumer alone, and a pending pull whose resolver is not the stored
\* one is left pending by it, with nothing delivered to its consumer.
C13_LaterPullOverwrites ==
    [][/\ resolveRouteChange' \in {Null} \cup {Resolver(c) : c \in Consumers}
       /\ last'.op = "next"
            => resolveRouteChange' = Resolver(last'.consumer)
       /\ last'.op = "deferred"
            => /\ Len(OutOfKind("resolve")') = (IF Truthy(resolveRouteChange) THEN 1 ELSE 0)
               /\ \A c \in Consumers :
                    IF resolveRouteChange = Resolver(c)
                    THEN /\ claimed # <<>>
                         /\ DeliveredIn(out', c, Head(claimed).route)
                         /\ OutOfKind("resolve")'[1].resolver = Resolver(c)
                    ELSE /\ gen'[c] = gen[c]
                         /\ \A i \in DOMAIN out' :
                              out'[i].kind \in {"deliver", "finally"}
                                => out'[i].consumer # c]_vars

\* A pulled, then B pulled, then a match: the deferred action delivered the
\* record to B, and A's pull is still pending with the slot empty
C13_Witness ==
    /\ Deferred
    /\ DeliveredTo("B", last.claim.route)
    /\ gen["B"] = "suspendedYield"
    /\ gen["A"] = "awaiting"
    /\ resolveRouteChange = Null

---------------------------------------------------------------------------
(* C14 *)

\* sequence s is a prefix of sequence t
IsPrefix(s, t) ==
    /\ Len(s) <= Len(t)
    /\ \A i \in DOMAIN s : s[i] = t[i]

\* C14: the route table is append-only. No step removes a static path; the
\* pattern entries present before a step are, unchanged and at the same
\* positions, the first entries after it, and a step appends at most one; a
\* static path that was registered changes handler only in an add of that very
\* path, which stores the handler given; and a step that is not an add
\* (navigation, claim, deferred action with its emit, on, pull, return) leaves
\* both collections as they were.
C14_RouteTableAppendOnly ==
    [][/\ DOMAIN staticRoutes \subseteq DOMAIN staticRoutes'
       /\ IsPrefix(dynamicRoutes, dynamicRoutes')
       /\ Len(dynamicRoutes') <= Len(dynamicRoutes) + 1
       /\ \A p \in DOMAIN staticRoutes :
            staticRoutes'[p] # staticRoutes[p]
                => /\ last'.op = "add"
                   /\ last'.route = p
                   /\ staticRoutes'[p] = last'.handler
       /\ last'.op # "add"
            => /\ staticRoutes' = staticRoutes
               /\ dynamicRoutes' = dynamicRoutes
       /\ (last'.op = "add" /\ IncludesColon(last'.route))
            => staticRoutes' = staticRoutes
       /\ (last'.op = "add" /\ ~IncludesColon(last'.route))
            => dynamicRoutes' = dynamicRoutes]_vars

\* a second pattern was appended behind the first while a static path whose
\* handler had been replaced is still registered
C14_Witness ==
    /\ last.op = "add"
    /\ Len(last.before) = 1
    /\ Len(dynamicRoutes) = 2
    /\ dynamicRoutes[1] = last.before[1]
    /\ dynamicRoutes[2].route = last.route
    /\ PathPostsNew \in DOMAIN staticRoutes
    /\ registered[PathPostsNew].replaced

---------------------------------------------------------------------------
(* C15 *)

\* the positions in the effects of the latest step that are of the given kind
PositionsOfKind(kind) == {i \in DOMAIN out : out[i].kind = kind}

\* C15: when the handler of a matched navigation fails (throws, or returns a
\* promise that rejects), the deferred action handed to the host ends with that
\* failure; the handler was called once (no retry), the only event emitted is
\* 'change' (no '404'), emitted before the handler was called, a resolver that
\* was stored was invoked before the handler was called, and the slot is empty.
C15_HandlerFailurePropagates ==
    (Deferred /\ last.outcome = "rejected")
        => /\ OutOfKind("return") = <<[kind |-> "return", result |-> "rejected"]>>
           /\ Len(OutOfKind("handler")) = 1
           /\ \A i \in PositionsOfKind("handler") :
                /\ \A j \in PositionsOfKind("return") : i < j
                /\ \A j \in PositionsOfKind("emit") : j < i
                /\ \A j \in PositionsOfKind("resolve") : j < i
           /\ Len(OutOfKind("emit")) = 1
           /\ OutOfKind("emit")[1].event.name = "change"
           /\ OutOfKind("throw") = <<>>
           /\ resolveRouteChange = Null
           /\ \A c \in Consumers :
                DeliveredTo(c, last.claim.route) => Len(OutOfKind("resolve")) = 1

\* the handler failed in a deferred action that had a stored resolver to invoke:
\* 'change', the resolution and the rejection are all there
C15_Witness ==
    /\ Deferred
    /\ last.outcome = "rejected"
    /\ Len(OutOfKind("resolve")) = 1
    /\ Len(OutOfKind("emit")) = 1
    /\ OutOfKind("return")[1].result = "rejected"

---------------------------------------------------------------------------
(* C16 *)

\* C16: the async sequence never completes on its own. Every result delivered
\* to a pull has done = false, and a consumer's generator ends (its finally
\* block runs, or it leaves the loop for good) only in a step in which that
\* consumer abandons the iteration, or in the deferred action that settles the
\* pull behind which that consumer's return() was queued; a return() is queued
\* only by that consumer. Navigations, matches, 404s, add and on end nothing.
C16_NeverCompletesOnItsOwn ==
    [][/\ \A i \in DOMAIN out' :
            out'[i].kind = "deliver" => out'[i].result.done = FALSE
       /\ \A c \in Consumers :
            /\ (gen[c] # "suspendedStart" /\ gen'[c] = "suspendedStart")
                => \/ last'.op = "return" /\ last'.consumer = c
                   \/ last'.op = "deferred" /\ gen[c] = "awaitingReturn"
            /\ (gen[c] # "awaitingReturn" /\ gen'[c] = "awaitingReturn")
                => (last'.op = "return" /\ last'.consumer = c)
            /\ (\E i \in DOMAIN out' :
                    out'[i].kind = "finally" /\ out'[i].consumer = c)
                => \/ last'.op = "return" /\ last'.consumer = c
                   \/ last'.op = "deferred" /\ gen[c] = "awaitingReturn"]_vars

\* B was delivered a match and is in its loop body, A pulled, and a navigation
\* ended in '404': A's pull is still pending and nobody's sequence has ended
C16_Witness ==
    /\ Navigated
    /\ Len(OutOfKind("emit")) = 1
    /\ OutOfKind("emit")[1].event.name = "404"
    /\ gen["A"] = "awaiting"
    /\ gen["B"] = "suspendedYield"

---------------------------------------------------------------------------
(* C17 *)

\* C17: matches are not kept for later pulls. A deferred action that runs while
\* the slot is empty invokes no resolver, delivers nothing, leaves every
\* generator as it was and the slot empty; a pull never settles in its own
\* step, whatever matches came before it: it stores its resolver and stays
\* pending; and what a deferred action delivers to a pull is the record of that
\* deferred action's own navigation, never the record of an earlier match.
C17_MatchesNotBuffered ==
    [][/\ (last'.op = "deferred" /\ resolveRouteChange = Null)
            => /\ resolveRouteChange' = Null
               /\ gen' = gen
               /\ OutOfKind("resolve")' = <<>>
               /\ OutOfKind("deliver")' = <<>>
       /\ last'.op = "next"
            => /\ OutOfKind("deliver")' = <<>>
               /\ gen'[last'.consumer] = "awaiting"
               /\ resolveRouteChange' = Resolver(last'.consumer)
       /\ last'.op = "deferred"
            => /\ claimed # <<>>
               /\ \A i \in DOMAIN out' :
                    out'[i].kind = "deliver"
                        => out'[i].result.value = Resolution(Head(claimed).route)]_vars

\* a match whose deferred action ran while the consumer was still in its loop
\* body with the previous record: nothing was stored, nothing was delivered
C17_Witness ==
    /\ Deferred
    /\ OutOfKind("resolve") = <<>>
    /\ OutOfKind("deliver") = <<>>
    /\ gen["A"] = "suspendedYield"
    /\ gen["B"] = "suspendedStart"
    /\ resolveRouteChange = Null

---------------------------------------------------------------------------
(* C18 *)

\* C18: the delivery of a navigate event, whether it ends in '404', in a claim
\* (intercept) whose deferred action the host has not invoked yet, or in
\* nothing, leaves the slot, the generators and the route table as they were:
\* it invokes no resolver, delivers nothing to any pull and runs no handler.
C18_NavigationLeavesSlot ==
    [][last'.op = "navigate"
        => /\ resolveRouteChange' = resolveRouteChange
           /\ gen' = gen
           /\ staticRoutes' = staticRoutes
           /\ dynamicRoutes' = dynamicRoutes
           /\ \A i \in DOMAIN out' :
                out'[i].kind \notin {"resolve", "deliver", "finally", "handler"}]_vars

\* a pull of A is pending with its resolver stored and an eligible navigation to
\* an unregistered path emitted '404'
C18_Witness ==
    /\ Navigated
    /\ Eligible(last.event)
    /\ Len(OutOfKind("emit")) = 1
    /\ OutOfKind("emit")[1].event.name = "404"
    /\ resolveRouteChange = Resolver("A")
    /\ gen["A"] = "awaiting"
    /\ gen["B"] = "suspendedStart"

---------------------------------------------------------------------------
(* C19 *)

\* C19: with two consumers, when consumer a, who is iterating (its pull is
\* pending or it is in its loop body), abandons the iteration while the pull of
\* the other consumer b is pending with b's resolver stored, the slot is empty
\* after the abandonment and b's pull stays pending.
C19_AbandonDropsOtherResolver ==
    [][\A a, b \in Consumers :
        (/\ a # b
         /\ last'.op = "return"
         /\ last'.consumer = a
         /\ gen[a] \in {"awaiting", "suspendedYield"}
         /\ PendingIn(gen, b)
         /\ resolveRouteChange = Resolver(b))
            => /\ resolveRouteChange' = Null
               /\ PendingIn(gen', b)]_vars

---------------------------------------------------------------------------
(* C20 *)

\* C20: the route of a navigation is resolved when match runs, not when the host
\* invokes the deferred action. The claim made by match carries the handler and
\* the record #getRoute gave for the table of that moment; add leaves a pending
\* claim as it is, whether it replaces the handler of the static path or appends
\* pattern entries; and the deferred action emits that record and calls that
\* handler with it, whatever the table resolves the URL to by then.
C20_RouteBoundAtMatch ==
    [][/\ (last'.op = "navigate" /\ claimed' # claimed)
            => /\ Truthy(getRoute(last'.event.destination))
               /\ claimed' =
                    <<[route |-> Route(getRoute(last'.event.destination),
                                       last'.event.destination),
                       handler |-> getRoute(last'.event.destination).handler]>>
       /\ last'.op \in {"add", "on", "next", "return"} => claimed' = claimed
       /\ last'.op = "deferred"
            => /\ claimed # <<>>
               /\ OutOfKind("handler")' =
                    <<[kind |-> "handler", handler |-> Head(claimed).handler,
                       arg |-> Head(claimed).route]>>
               /\ \A i \in DOMAIN out' :
                    out'[i].kind = "emit"
                        => out'[i].event.detail = Head(claimed).route]_vars

\* h1 was registered on /posts/new, a navigation to it was claimed, add replaced
\* the handler by h2, then the host invoked the deferred action: h1 was called
C20_Witness ==
    /\ Deferred
    /\ last.claim.route.url.pathname = PathPostsNew
    /\ last.claim.route.params = Undefined
    /\ last.claim.handler = Function("h1")
    /\ PathPostsNew \in DOMAIN staticRoutes
    /\ staticRoutes[PathPostsNew] = Function("h2")
    /\ OutOfKind("handler") =
        <<[kind |-> "handler", handler |-> Function("h1"), arg |-> last.claim.route]>>

====
